---- MODULE Spec2Model ----
(***************************************************************************)
(* Thecus N5550 board setup (n5550_board.c): bring-up and tear-down of the *)
(* two PCA9532 satellite chips, the ICH10R GPIO pin-ownership fixup and    *)
(* the leds-gpio platform device.                                          *)
(*                                                                         *)
(* 32-bit register values are sets of bit positions (a subset of 0..31),   *)
(* so that OR is union and AND is intersection at full width.              *)
(***************************************************************************)
EXTENDS Integers, Sequences, FiniteSets, TLC

(* ---------------------------------------------------------------------- *)
(* Bounds of the environment                                               *)
(* ---------------------------------------------------------------------- *)
\* longest list of registered GPIO controllers that is enumerated
MaxChips == 2
\* longest list of controllers handed to the locator on its own
MaxLocatorChips == 3
\* number of times the GPIO fixup is applied in a row on its own
MaxFixupCalls == 2

(* ---------------------------------------------------------------------- *)
(* Program constants                                                       *)
(* ---------------------------------------------------------------------- *)
ENODEV == 19
EINVAL == 22
EBUSY == 16
ENOMEM == 12

N5550_ICH_LPC_PCI_DEV == 14870
N5550_ICH_I2C_PCI_DEV == 14896

N5550_ICH_PCI_GPIO_BASE == 72
N5550_ICH_PCI_GPIO_CTRL == 76
\* the byte written to N5550_ICH_PCI_GPIO_CTRL
N5550_ICH_PCI_GPIO_CTRL_ON == 16

N5550_ICH_GPIO_USE_SEL_0 == 0
N5550_ICH_GPIO_USE_SEL_1 == 48
N5550_ICH_GPIO_USE_SEL_2 == 64

N5550_ICH_GPIO_PINS_0 == {0, 2, 3, 4, 5, 9, 28}
N5550_ICH_GPIO_PINS_1 == {34 - 32}

\* gpio_io_base &= 0x0000ff80
GPIO_IO_BASE_MASK == 7..15

PCA9532_0_ADDR == 100
PCA9532_1_ADDR == 98

NUM_LEDS == 5
\* the offsets taken for contiguous
n5550_ich_gpio_led_offsets_contiguous == <<0, 1, 2, 3, 4>>
n5550_ich_gpio_led_offsets == <<0, 2, 3, 4, 5>>

\* a NULL pointer (struct i2c_client *, struct gpio_chip *)
NULL == 0
\* a NULL gc->label, kept apart from every label string
NullLabel == "<NULL>"
\* an int that has not been assigned yet
Unset == -9999

(* ---------------------------------------------------------------------- *)
(* Arithmetic on registers                                                 *)
(* ---------------------------------------------------------------------- *)
RECURSIVE Pow2(_)
Pow2(n) == IF n = 0 THEN 1 ELSE 2 * Pow2(n - 1)

\* numeric value of a register whose bit 31 is clear
RECURSIVE U32Value(_)
U32Value(bits) ==
    IF bits = {} THEN 0
    ELSE LET b == CHOOSE x \in bits : TRUE
         IN  Pow2(b) + U32Value(bits \ {b})

BitOr(a, b) == a \cup b
BitAnd(a, b) == a \cap b

(* ---------------------------------------------------------------------- *)
(* Environment: hardware and collaborating subsystems                      *)
(* ---------------------------------------------------------------------- *)
ChipLabels == {NullLabel, "other", "gpio_ich"}
ChipBases == {-1, 0, 100}
GpioChips == [label : ChipLabels, base : ChipBases]

ChipLists == UNION {[1..n -> GpioChips] : n \in 0..MaxChips}

\* firmware values of the port-mapped registers: 0x00000000 and 0x80000043
RegVals == {{}, {0, 1, 6, 31}}
\* firmware values of the GPIO base configuration dword: 0x00000481, 0x00010480
GpioBaseVals == {{0, 7, 10}, {7, 10, 16}}
\* firmware values of the GPIO control configuration byte
GpioCtrlVals == {0, 16}

\* the I/O window both of them decode to: 0x0480
FirmwareIoBase == {7, 10}

Ports == {U32Value(FirmwareIoBase) + N5550_ICH_GPIO_USE_SEL_0,
          U32Value(FirmwareIoBase) + N5550_ICH_GPIO_USE_SEL_1,
          U32Value(FirmwareIoBase) + N5550_ICH_GPIO_USE_SEL_2}

\* error codes platform_device_register can fail with
PdevRegisterErrors == {-ENOMEM, -EBUSY}

VARIABLES
    pc,                         \* position in n5550_board_init / n5550_board_exit
    ret,                        \* n5550_board_init: int ret
    init_ret,                   \* value n5550_board_init returned to the loader
    pca_rv,                     \* value n5550_pca9532_setup returned
    gpio_rv,                    \* value n5550_ich_gpio_setup returned
    led_rv,                     \* value n5550_ich_gpio_led_setup returned
    base,                       \* n5550_ich_gpio_led_setup: int base
    gpio_io_base,               \* n5550_ich_gpio_setup: u32 gpio_io_base
    n5550_pca9532_0_client,
    n5550_pca9532_1_client,
    leds_gpio,                  \* n5550_ich_gpio_leds[i].gpio
    i2c_devs,                   \* addresses of the clients registered on the adapter
    pdev_registered,            \* n5550_ich_gpio_led_pdev is registered
    owner_refs,                 \* references this module holds on adapter->owner
    pci_refs,                   \* references this module holds on each pci_dev
    gpio_chips,                 \* the registered GPIO controllers, in list order
    pci_gpio_base,              \* LPC config dword 0x48
    pci_gpio_ctrl,              \* LPC config byte 0x4c
    io,                         \* port-mapped registers
    boot,                       \* register values the firmware left
    log                         \* calls made into the collaborating subsystems

vars == <<pc, ret, init_ret, pca_rv, gpio_rv, led_rv, base, gpio_io_base,
          n5550_pca9532_0_client, n5550_pca9532_1_client, leds_gpio, i2c_devs,
          pdev_registered, owner_refs, pci_refs, gpio_chips, pci_gpio_base,
          pci_gpio_ctrl, io, boot, log>>

locals == <<ret, base, gpio_io_base>>
rvs == <<pca_rv, gpio_rv, led_rv>>
clients == <<n5550_pca9532_0_client, n5550_pca9532_1_client, i2c_devs>>
regs == <<pci_gpio_base, pci_gpio_ctrl, io, boot>>

Call(name, arg, res) == [call |-> name, arg |-> arg, res |-> res]

Init ==
    /\ pc = "unloaded"
    /\ ret = Unset
    /\ init_ret = Unset
    /\ pca_rv = Unset
    /\ gpio_rv = Unset
    /\ led_rv = Unset
    /\ base = Unset
    /\ gpio_io_base = {}
    /\ n5550_pca9532_0_client = NULL
    /\ n5550_pca9532_1_client = NULL
    /\ leds_gpio = [i \in 1..NUM_LEDS |-> 0]
    /\ i2c_devs = {}
    /\ pdev_registered = FALSE
    /\ owner_refs = 0
    /\ pci_refs = 0
    /\ gpio_chips \in ChipLists
    /\ pci_gpio_base \in GpioBaseVals
    /\ pci_gpio_ctrl \in GpioCtrlVals
    /\ io \in [Ports -> RegVals]
    /\ boot = [ctrl |-> pci_gpio_ctrl, io |-> io]
    /\ log = <<>>

(* ---------------------------------------------------------------------- *)
(* Controller locator                                                      *)
(* ---------------------------------------------------------------------- *)
strcmp(a, b) == IF a = b THEN 0 ELSE 1

\* a NULL label accepted as a match
n5550_match_ich_gpiochip_null_matches(gc) ==
    (gc.label = NullLabel) \/ strcmp(gc.label, "gpio_ich") = 0

n5550_match_ich_gpiochip(gc) ==
    (gc.label # NullLabel) /\ strcmp(gc.label, "gpio_ich") = 0

\* index of the first chip of the list that match accepts, NULL if none
RECURSIVE gpiochip_find_from(_, _)
gpiochip_find_from(chips, i) ==
    IF i > Len(chips) THEN NULL
    ELSE IF n5550_match_ich_gpiochip(chips[i]) THEN i
    ELSE gpiochip_find_from(chips, i + 1)

gpiochip_find(chips) == gpiochip_find_from(chips, 1)

\* the base handed back without the check for a negative base
n5550_get_ich_gpiobase_unchecked(chips) ==
    LET gc == gpiochip_find(chips)
    IN  IF gc = NULL THEN -ENODEV ELSE chips[gc].base

n5550_get_ich_gpiobase(chips) ==
    LET gc == gpiochip_find(chips)
    IN  IF gc = NULL THEN -ENODEV
        ELSE IF chips[gc].base < 0 THEN -EINVAL
        ELSE chips[gc].base

(* ---------------------------------------------------------------------- *)
(* Satellite chip bring-up: n5550_pca9532_setup                            *)
(* ---------------------------------------------------------------------- *)
\* module_init calls n5550_board_init, which calls n5550_pca9532_setup
board_init_enter ==
    /\ pc = "unloaded"
    /\ pc' = "pca_get_device"
    /\ UNCHANGED <<locals, init_ret, rvs, clients, leds_gpio, pdev_registered,
                   owner_refs, pci_refs, gpio_chips, regs, log>>

pca9532_setup_get_device ==
    /\ pc = "pca_get_device"
    /\ \E found \in BOOLEAN :
         IF found
         THEN /\ pci_refs' = pci_refs + 1
              /\ log' = Append(log, Call("pci_get_device", N5550_ICH_I2C_PCI_DEV, 1))
              /\ pc' = "pca_get_drvdata"
              /\ UNCHANGED pca_rv
         ELSE /\ log' = Append(log, Call("pci_get_device", N5550_ICH_I2C_PCI_DEV, 0))
              /\ pca_rv' = -ENODEV
              /\ pc' = "init_after_pca"
              /\ UNCHANGED pci_refs
    /\ UNCHANGED <<locals, init_ret, gpio_rv, led_rv, clients, leds_gpio,
                   pdev_registered, owner_refs, gpio_chips, regs>>

\* the missing adapter returned without pci_dev_put
pca9532_setup_get_drvdata_leaks_dev ==
    /\ pc = "pca_get_drvdata"
    /\ \E adapter \in BOOLEAN :
         IF adapter
         THEN /\ pc' = "pca_module_get"
              /\ UNCHANGED pca_rv
         ELSE /\ pca_rv' = -ENODEV
              /\ pc' = "init_after_pca"
    /\ UNCHANGED <<locals, init_ret, gpio_rv, led_rv, clients, leds_gpio,
                   pdev_registered, owner_refs, pci_refs, gpio_chips, regs, log>>

pca9532_setup_get_drvdata ==
    /\ pc = "pca_get_drvdata"
    /\ \E adapter \in BOOLEAN :
         IF adapter
         THEN /\ pc' = "pca_module_get"
              /\ UNCHANGED <<pca_rv, pci_refs, log>>
         ELSE /\ pci_refs' = pci_refs - 1
              /\ log' = Append(log, Call("pci_dev_put", N5550_ICH_I2C_PCI_DEV, 0))
              /\ pca_rv' = -ENODEV
              /\ pc' = "init_after_pca"
    /\ UNCHANGED <<locals, init_ret, gpio_rv, led_rv, clients, leds_gpio,
                   pdev_registered, owner_refs, gpio_chips, regs>>

\* the result of try_module_get ignored
pca9532_setup_module_get_unchecked ==
    /\ pc = "pca_module_get"
    /\ \E got \in BOOLEAN :
         /\ owner_refs' = IF got THEN owner_refs + 1 ELSE owner_refs
         /\ log' = Append(log, Call("try_module_get", 0, IF got THEN 1 ELSE 0))
    /\ pc' = "pca_new_client_0"
    /\ UNCHANGED <<locals, init_ret, rvs, clients, leds_gpio, pdev_registered,
                   pci_refs, gpio_chips, regs>>

pca9532_setup_module_get ==
    /\ pc = "pca_module_get"
    /\ \E got \in BOOLEAN :
         IF got
         THEN /\ owner_refs' = owner_refs + 1
              /\ log' = Append(log, Call("try_module_get", 0, 1))
              /\ pc' = "pca_new_client_0"
              /\ UNCHANGED <<pca_rv, pci_refs>>
         ELSE /\ pci_refs' = pci_refs - 1
              /\ log' = log \o <<Call("try_module_get", 0, 0),
                                 Call("pci_dev_put", N5550_ICH_I2C_PCI_DEV, 0)>>
              /\ pca_rv' = -EBUSY
              /\ pc' = "init_after_pca"
              /\ UNCHANGED owner_refs
    /\ UNCHANGED <<locals, init_ret, gpio_rv, led_rv, clients, leds_gpio,
                   pdev_registered, gpio_chips, regs>>

\* a registration that fails hands back the NULL client the code tests for
pca9532_setup_new_client_0 ==
    /\ pc = "pca_new_client_0"
    /\ \E client \in {NULL, PCA9532_0_ADDR} :
         /\ n5550_pca9532_0_client' = client
         /\ IF client = NULL
            THEN /\ owner_refs' = owner_refs - 1
                 /\ pci_refs' = pci_refs - 1
                 /\ log' = log \o <<Call("i2c_new_client_device", PCA9532_0_ADDR, NULL),
                                    Call("module_put", 0, 0),
                                    Call("pci_dev_put", N5550_ICH_I2C_PCI_DEV, 0)>>
                 /\ pca_rv' = -ENODEV
                 /\ pc' = "init_after_pca"
                 /\ UNCHANGED i2c_devs
            ELSE /\ i2c_devs' = i2c_devs \cup {client}
                 /\ log' = Append(log, Call("i2c_new_client_device", PCA9532_0_ADDR, client))
                 /\ pc' = "pca_new_client_1"
                 /\ UNCHANGED <<pca_rv, owner_refs, pci_refs>>
    /\ UNCHANGED <<locals, init_ret, gpio_rv, led_rv, n5550_pca9532_1_client,
                   leds_gpio, pdev_registered, gpio_chips, regs>>

\* the second registration's failure path without the rollback of the first
pca9532_setup_new_client_1_no_rollback ==
    /\ pc = "pca_new_client_1"
    /\ \E client \in {NULL, PCA9532_1_ADDR} :
         /\ n5550_pca9532_1_client' = client
         /\ IF client = NULL
            THEN /\ owner_refs' = owner_refs - 1
                 /\ pci_refs' = pci_refs - 1
                 /\ log' = log \o <<Call("i2c_new_client_device", PCA9532_1_ADDR, NULL),
                                    Call("module_put", 0, 0),
                                    Call("pci_dev_put", N5550_ICH_I2C_PCI_DEV, 0)>>
                 /\ pca_rv' = -ENODEV
                 /\ pc' = "init_after_pca"
                 /\ UNCHANGED i2c_devs
            ELSE /\ i2c_devs' = i2c_devs \cup {client}
                 /\ log' = Append(log, Call("i2c_new_client_device", PCA9532_1_ADDR, client))
                 /\ pc' = "pca_release"
                 /\ UNCHANGED <<pca_rv, owner_refs, pci_refs>>
    /\ UNCHANGED <<locals, init_ret, gpio_rv, led_rv, n5550_pca9532_0_client,
                   leds_gpio, pdev_registered, gpio_chips, regs>>

pca9532_setup_new_client_1 ==
    /\ pc = "pca_new_client_1"
    /\ \E client \in {NULL, PCA9532_1_ADDR} :
         /\ n5550_pca9532_1_client' = client
         /\ IF client = NULL
            THEN /\ i2c_devs' = i2c_devs \ {n5550_pca9532_0_client}
                 /\ owner_refs' = owner_refs - 1
                 /\ pci_refs' = pci_refs - 1
                 /\ log' = log \o <<Call("i2c_new_client_device", PCA9532_1_ADDR, NULL),
                                    Call("i2c_unregister_device", n5550_pca9532_0_client, 0),
                                    Call("module_put", 0, 0),
                                    Call("pci_dev_put", N5550_ICH_I2C_PCI_DEV, 0)>>
                 /\ pca_rv' = -ENODEV
                 /\ pc' = "init_after_pca"
            ELSE /\ i2c_devs' = i2c_devs \cup {client}
                 /\ log' = Append(log, Call("i2c_new_client_device", PCA9532_1_ADDR, client))
                 /\ pc' = "pca_release"
                 /\ UNCHANGED <<pca_rv, owner_refs, pci_refs>>
    /\ UNCHANGED <<locals, init_ret, gpio_rv, led_rv, n5550_pca9532_0_client,
                   leds_gpio, pdev_registered, gpio_chips, regs>>

\* the success path without module_put
pca9532_setup_release_keeps_owner ==
    /\ pc = "pca_release"
    /\ pci_refs' = pci_refs - 1
    /\ log' = Append(log, Call("pci_dev_put", N5550_ICH_I2C_PCI_DEV, 0))
    /\ pca_rv' = 0
    /\ pc' = "init_after_pca"
    /\ UNCHANGED <<locals, init_ret, gpio_rv, led_rv, clients, leds_gpio,
                   pdev_registered, owner_refs, gpio_chips, regs>>

pca9532_setup_release ==
    /\ pc = "pca_release"
    /\ owner_refs' = owner_refs - 1
    /\ pci_refs' = pci_refs - 1
    /\ log' = log \o <<Call("module_put", 0, 0),
                       Call("pci_dev_put", N5550_ICH_I2C_PCI_DEV, 0)>>
    /\ pca_rv' = 0
    /\ pc' = "init_after_pca"
    /\ UNCHANGED <<locals, init_ret, gpio_rv, led_rv, clients, leds_gpio,
                   pdev_registered, gpio_chips, regs>>

(* ---------------------------------------------------------------------- *)
(* Satellite chip tear-down: n5550_pca9532_cleanup                         *)
(* ---------------------------------------------------------------------- *)
i2c_unregister_device(devs, client) == devs \ {client}

\* the first client unregistered twice, the second never
n5550_pca9532_cleanup_first_twice ==
    /\ i2c_devs' = i2c_unregister_device(
                       i2c_unregister_device(i2c_devs, n5550_pca9532_0_client),
                       n5550_pca9532_0_client)
    /\ log' = log \o <<Call("i2c_unregister_device", n5550_pca9532_0_client, 0),
                       Call("i2c_unregister_device", n5550_pca9532_0_client, 0)>>
    /\ UNCHANGED <<n5550_pca9532_0_client, n5550_pca9532_1_client>>

n5550_pca9532_cleanup ==
    /\ i2c_devs' = i2c_unregister_device(
                       i2c_unregister_device(i2c_devs, n5550_pca9532_0_client),
                       n5550_pca9532_1_client)
    /\ log' = log \o <<Call("i2c_unregister_device", n5550_pca9532_0_client, 0),
                       Call("i2c_unregister_device", n5550_pca9532_1_client, 0)>>
    /\ UNCHANGED <<n5550_pca9532_0_client, n5550_pca9532_1_client>>

(* ---------------------------------------------------------------------- *)
(* GPIO enable fixup: n5550_ich_gpio_setup                                 *)
(* ---------------------------------------------------------------------- *)
\* the mask assigned instead of ORed in
gpio_use_sel_enable_overwrite(gpio_pins, pins) == pins

\* the mask XORed in
gpio_use_sel_enable_toggle(gpio_pins, pins) ==
    (gpio_pins \ pins) \cup (pins \ gpio_pins)

\* gpio_pins |= pins
gpio_use_sel_enable(gpio_pins, pins) == BitOr(gpio_pins, pins)

\* the control byte written before dev is tested for NULL
ich_gpio_setup_get_device_write_before_check ==
    /\ pc = "gpio_get_device"
    /\ \E found \in BOOLEAN :
         IF found
         THEN /\ pci_refs' = pci_refs + 1
              /\ log' = Append(log, Call("pci_get_device", N5550_ICH_LPC_PCI_DEV, 1))
              /\ pc' = "gpio_config"
              /\ UNCHANGED <<gpio_rv, pci_gpio_ctrl>>
         ELSE /\ log' = log \o <<Call("pci_get_device", N5550_ICH_LPC_PCI_DEV, 0),
                                 Call("pci_write_config_byte", N5550_ICH_PCI_GPIO_CTRL,
                                      N5550_ICH_PCI_GPIO_CTRL_ON)>>
              /\ pci_gpio_ctrl' = N5550_ICH_PCI_GPIO_CTRL_ON
              /\ gpio_rv' = -ENODEV
              /\ pc' = "init_after_gpio"
              /\ UNCHANGED pci_refs
    /\ UNCHANGED <<locals, init_ret, pca_rv, led_rv, clients, leds_gpio,
                   pdev_registered, owner_refs, gpio_chips, pci_gpio_base, io, boot>>

ich_gpio_setup_get_device ==
    /\ pc = "gpio_get_device"
    /\ \E found \in BOOLEAN :
         IF found
         THEN /\ pci_refs' = pci_refs + 1
              /\ log' = Append(log, Call("pci_get_device", N5550_ICH_LPC_PCI_DEV, 1))
              /\ pc' = "gpio_config"
              /\ UNCHANGED gpio_rv
         ELSE /\ log' = Append(log, Call("pci_get_device", N5550_ICH_LPC_PCI_DEV, 0))
              /\ gpio_rv' = -ENODEV
              /\ pc' = "init_after_gpio"
              /\ UNCHANGED pci_refs
    /\ UNCHANGED <<locals, init_ret, pca_rv, led_rv, clients, leds_gpio,
                   pdev_registered, owner_refs, gpio_chips, regs>>

\* read the GPIO base dword, mask it, switch the GPIO function on
ich_gpio_setup_config ==
    /\ pc = "gpio_config"
    /\ gpio_io_base' = BitAnd(pci_gpio_base, GPIO_IO_BASE_MASK)
    /\ pci_gpio_ctrl' = N5550_ICH_PCI_GPIO_CTRL_ON
    /\ log' = log \o <<Call("pci_read_config_dword", N5550_ICH_PCI_GPIO_BASE, 0),
                       Call("pci_write_config_byte", N5550_ICH_PCI_GPIO_CTRL,
                            N5550_ICH_PCI_GPIO_CTRL_ON)>>
    /\ pc' = "gpio_use_sel_0"
    /\ UNCHANGED <<ret, base, init_ret, rvs, clients, leds_gpio, pdev_registered,
                   owner_refs, pci_refs, gpio_chips, pci_gpio_base, io, boot>>

ich_gpio_setup_use_sel_0 ==
    /\ pc = "gpio_use_sel_0"
    /\ LET port == U32Value(gpio_io_base) + N5550_ICH_GPIO_USE_SEL_0
       IN  /\ io' = [io EXCEPT ![port] = gpio_use_sel_enable(@, N5550_ICH_GPIO_PINS_0)]
           /\ log' = log \o <<Call("inl", port, 0), Call("outl", port, 0)>>
    /\ pc' = "gpio_use_sel_1"
    /\ UNCHANGED <<locals, init_ret, rvs, clients, leds_gpio, pdev_registered,
                   owner_refs, pci_refs, gpio_chips, pci_gpio_base, pci_gpio_ctrl, boot>>

\* the second read-modify-write aimed at GPIO_USE_SEL_2
ich_gpio_setup_use_sel_1_wrong_port ==
    /\ pc = "gpio_use_sel_1"
    /\ LET port == U32Value(gpio_io_base) + N5550_ICH_GPIO_USE_SEL_2
       IN  /\ io' = [io EXCEPT ![port] = gpio_use_sel_enable(@, N5550_ICH_GPIO_PINS_1)]
           /\ log' = log \o <<Call("inl", port, 0), Call("outl", port, 0),
                              Call("pci_dev_put", N5550_ICH_LPC_PCI_DEV, 0)>>
    /\ pci_refs' = pci_refs - 1
    /\ gpio_rv' = 0
    /\ pc' = "init_after_gpio"
    /\ UNCHANGED <<locals, init_ret, pca_rv, led_rv, clients, leds_gpio,
                   pdev_registered, owner_refs, gpio_chips, pci_gpio_base,
                   pci_gpio_ctrl, boot>>

ich_gpio_setup_use_sel_1 ==
    /\ pc = "gpio_use_sel_1"
    /\ LET port == U32Value(gpio_io_base) + N5550_ICH_GPIO_USE_SEL_1
       IN  /\ io' = [io EXCEPT ![port] = gpio_use_sel_enable(@, N5550_ICH_GPIO_PINS_1)]
           /\ log' = log \o <<Call("inl", port, 0), Call("outl", port, 0),
                              Call("pci_dev_put", N5550_ICH_LPC_PCI_DEV, 0)>>
    /\ pci_refs' = pci_refs - 1
    /\ gpio_rv' = 0
    /\ pc' = "init_after_gpio"
    /\ UNCHANGED <<locals, init_ret, pca_rv, led_rv, clients, leds_gpio,
                   pdev_registered, owner_refs, gpio_chips, pci_gpio_base,
                   pci_gpio_ctrl, boot>>

(* ---------------------------------------------------------------------- *)
(* LED device bring-up and tear-down                                       *)
(* ---------------------------------------------------------------------- *)
ich_gpio_led_setup_get_base ==
    /\ pc = "led_get_base"
    /\ base' = n5550_get_ich_gpiobase(gpio_chips)
    /\ log' = Append(log, Call("gpiochip_find", 0, gpiochip_find(gpio_chips)))
    /\ IF base' < 0
       THEN /\ led_rv' = base'
            /\ pc' = "init_after_led"
       ELSE /\ pc' = "led_resolve"
            /\ UNCHANGED led_rv
    /\ UNCHANGED <<ret, gpio_io_base, init_ret, pca_rv, gpio_rv, clients, leds_gpio,
                   pdev_registered, owner_refs, pci_refs, gpio_chips, regs>>

\* the loop over n5550_ich_gpio_leds; base is non-negative and the offsets
\* are at most 5, so the unsigned sum does not wrap
ich_gpio_led_setup_resolve ==
    /\ pc = "led_resolve"
    /\ leds_gpio' = [i \in 1..NUM_LEDS |-> base + n5550_ich_gpio_led_offsets[i]]
    /\ pc' = "led_register"
    /\ UNCHANGED <<locals, init_ret, rvs, clients, pdev_registered, owner_refs,
                   pci_refs, gpio_chips, regs, log>>

ich_gpio_led_setup_register ==
    /\ pc = "led_register"
    /\ \E r \in {0} \cup PdevRegisterErrors :
         /\ pdev_registered' = (r = 0)
         /\ log' = Append(log, Call("platform_device_register", 0, r))
         /\ led_rv' = r
    /\ pc' = "init_after_led"
    /\ UNCHANGED <<locals, init_ret, pca_rv, gpio_rv, clients, leds_gpio,
                   owner_refs, pci_refs, gpio_chips, regs>>

n5550_ich_gpio_led_cleanup ==
    /\ pdev_registered' = FALSE
    /\ log' = Append(log, Call("platform_device_unregister", 0, 0))

(* ---------------------------------------------------------------------- *)
(* Lifecycle: n5550_board_init, n5550_board_exit                           *)
(* ---------------------------------------------------------------------- *)
\* a failed satellite setup that does not return
board_init_after_pca_goes_on ==
    /\ pc = "init_after_pca"
    /\ ret' = pca_rv
    /\ pc' = "gpio_get_device"
    /\ UNCHANGED <<base, gpio_io_base, init_ret, rvs, clients, leds_gpio,
                   pdev_registered, owner_refs, pci_refs, gpio_chips, regs, log>>

\* a failed satellite setup sent to the error label
board_init_after_pca_goto_error ==
    /\ pc = "init_after_pca"
    /\ ret' = pca_rv
    /\ pc' = IF ret' # 0 THEN "init_error" ELSE "gpio_get_device"
    /\ UNCHANGED <<base, gpio_io_base, init_ret, rvs, clients, leds_gpio,
                   pdev_registered, owner_refs, pci_refs, gpio_chips, regs, log>>

board_init_after_pca ==
    /\ pc = "init_after_pca"
    /\ ret' = pca_rv
    /\ IF ret' # 0
       THEN /\ init_ret' = ret'
            /\ pc' = "failed"
       ELSE /\ pc' = "gpio_get_device"
            /\ UNCHANGED init_ret
    /\ UNCHANGED <<base, gpio_io_base, rvs, clients, leds_gpio, pdev_registered,
                   owner_refs, pci_refs, gpio_chips, regs, log>>

\* a failed fixup returned without the goto error
board_init_after_gpio_no_rollback ==
    /\ pc = "init_after_gpio"
    /\ ret' = gpio_rv
    /\ pc' = IF ret' # 0 THEN "init_error_return" ELSE "led_get_base"
    /\ UNCHANGED <<base, gpio_io_base, init_ret, rvs, clients, leds_gpio,
                   pdev_registered, owner_refs, pci_refs, gpio_chips, regs, log>>

board_init_after_gpio ==
    /\ pc = "init_after_gpio"
    /\ ret' = gpio_rv
    /\ pc' = IF ret' # 0 THEN "init_error" ELSE "led_get_base"
    /\ UNCHANGED <<base, gpio_io_base, init_ret, rvs, clients, leds_gpio,
                   pdev_registered, owner_refs, pci_refs, gpio_chips, regs, log>>

board_init_after_led ==
    /\ pc = "init_after_led"
    /\ ret' = led_rv
    /\ IF ret' # 0
       THEN /\ pc' = "init_error"
            /\ UNCHANGED init_ret
       ELSE /\ init_ret' = 0
            /\ pc' = "loaded"
    /\ UNCHANGED <<base, gpio_io_base, rvs, clients, leds_gpio, pdev_registered,
                   owner_refs, pci_refs, gpio_chips, regs, log>>

\* the error label tearing the LED device down as well
board_init_error_led_cleanup_too ==
    /\ pc = "init_error"
    /\ i2c_devs' = i2c_unregister_device(
                       i2c_unregister_device(i2c_devs, n5550_pca9532_0_client),
                       n5550_pca9532_1_client)
    /\ pdev_registered' = FALSE
    /\ log' = log \o <<Call("i2c_unregister_device", n5550_pca9532_0_client, 0),
                       Call("i2c_unregister_device", n5550_pca9532_1_client, 0),
                       Call("platform_device_unregister", 0, 0)>>
    /\ pc' = "init_error_return"
    /\ UNCHANGED <<locals, init_ret, rvs, n5550_pca9532_0_client,
                   n5550_pca9532_1_client, leds_gpio, owner_refs, pci_refs,
                   gpio_chips, regs>>

\* error: n5550_pca9532_cleanup();
board_init_error ==
    /\ pc = "init_error"
    /\ n5550_pca9532_cleanup
    /\ pc' = "init_error_return"
    /\ UNCHANGED <<locals, init_ret, rvs, leds_gpio, pdev_registered, owner_refs,
                   pci_refs, gpio_chips, regs>>

\* the error path returning a fixed code instead of ret
board_init_error_return_enodev ==
    /\ pc = "init_error_return"
    /\ init_ret' = -ENODEV
    /\ pc' = "failed"
    /\ UNCHANGED <<locals, rvs, clients, leds_gpio, pdev_registered, owner_refs,
                   pci_refs, gpio_chips, regs, log>>

\* return ret;
board_init_error_return ==
    /\ pc = "init_error_return"
    /\ init_ret' = ret
    /\ pc' = "failed"
    /\ UNCHANGED <<locals, rvs, clients, leds_gpio, pdev_registered, owner_refs,
                   pci_refs, gpio_chips, regs, log>>

\* n5550_board_exit with the LED device torn down first
board_exit_led_cleanup_first ==
    /\ pc = "loaded"
    /\ pdev_registered' = FALSE
    /\ i2c_devs' = i2c_unregister_device(
                       i2c_unregister_device(i2c_devs, n5550_pca9532_0_client),
                       n5550_pca9532_1_client)
    /\ log' = log \o <<Call("platform_device_unregister", 0, 0),
                       Call("i2c_unregister_device", n5550_pca9532_0_client, 0),
                       Call("i2c_unregister_device", n5550_pca9532_1_client, 0)>>
    /\ pc' = "removed"
    /\ UNCHANGED <<locals, init_ret, rvs, n5550_pca9532_0_client,
                   n5550_pca9532_1_client, leds_gpio, owner_refs, pci_refs,
                   gpio_chips, regs>>

\* module_exit calls n5550_board_exit, whose first statement this is
board_exit_pca9532_cleanup ==
    /\ pc = "loaded"
    /\ n5550_pca9532_cleanup
    /\ pc' = "exit_led_cleanup"
    /\ UNCHANGED <<locals, init_ret, rvs, leds_gpio, pdev_registered, owner_refs,
                   pci_refs, gpio_chips, regs>>

board_exit_led_cleanup ==
    /\ pc = "exit_led_cleanup"
    /\ n5550_ich_gpio_led_cleanup
    /\ pc' = "removed"
    /\ UNCHANGED <<locals, init_ret, rvs, clients, leds_gpio, owner_refs,
                   pci_refs, gpio_chips, regs>>

Next ==
    \/ board_init_enter
    \/ pca9532_setup_get_device
    \/ pca9532_setup_get_drvdata
    \/ pca9532_setup_module_get
    \/ pca9532_setup_new_client_0
    \/ pca9532_setup_new_client_1
    \/ pca9532_setup_release
    \/ board_init_after_pca
    \/ ich_gpio_setup_get_device
    \/ ich_gpio_setup_config
    \/ ich_gpio_setup_use_sel_0
    \/ ich_gpio_setup_use_sel_1
    \/ board_init_after_gpio
    \/ ich_gpio_led_setup_get_base
    \/ ich_gpio_led_setup_resolve
    \/ ich_gpio_led_setup_register
    \/ board_init_after_led
    \/ board_init_error
    \/ board_init_error_return
    \/ board_exit_pca9532_cleanup
    \/ board_exit_led_cleanup

Spec == Init /\ [][Next]_vars

TypeOK ==
    /\ pc \in {"unloaded", "pca_get_device", "pca_get_drvdata", "pca_module_get",
               "pca_new_client_0", "pca_new_client_1", "pca_release",
               "init_after_pca", "gpio_get_device", "gpio_config", "gpio_use_sel_0",
               "gpio_use_sel_1", "init_after_gpio", "led_get_base", "led_resolve",
               "led_register", "init_after_led", "init_error", "init_error_return",
               "loaded", "failed", "exit_led_cleanup", "removed"}
    /\ owner_refs \in 0..1
    /\ pci_refs \in 0..1
    /\ i2c_devs \subseteq {PCA9532_0_ADDR, PCA9532_1_ADDR}
    /\ io \in [Ports -> SUBSET (0..31)]

(* ---------------------------------------------------------------------- *)
(* Controller locator on its own: every list of up to MaxLocatorChips      *)
(* controllers is handed to n5550_get_ich_gpiobase                         *)
(* ---------------------------------------------------------------------- *)
LocatorChipLists == UNION {[1..n -> GpioChips] : n \in 0..MaxLocatorChips}

LocatorInit ==
    /\ pc = "locator_call"
    /\ ret = Unset
    /\ init_ret = Unset
    /\ pca_rv = Unset
    /\ gpio_rv = Unset
    /\ led_rv = Unset
    /\ base = Unset
    /\ gpio_io_base = {}
    /\ n5550_pca9532_0_client = NULL
    /\ n5550_pca9532_1_client = NULL
    /\ leds_gpio = [i \in 1..NUM_LEDS |-> 0]
    /\ i2c_devs = {}
    /\ pdev_registered = FALSE
    /\ owner_refs = 0
    /\ pci_refs = 0
    /\ gpio_chips \in LocatorChipLists
    /\ pci_gpio_base = FirmwareIoBase
    /\ pci_gpio_ctrl = 0
    /\ io = [p \in Ports |-> {}]
    /\ boot = [ctrl |-> pci_gpio_ctrl, io |-> io]
    /\ log = <<>>

locator_call ==
    /\ pc = "locator_call"
    /\ base' = n5550_get_ich_gpiobase(gpio_chips)
    /\ log' = Append(log, Call("gpiochip_find", 0, gpiochip_find(gpio_chips)))
    /\ pc' = "locator_done"
    /\ UNCHANGED <<ret, gpio_io_base, init_ret, rvs, clients, leds_gpio,
                   pdev_registered, owner_refs, pci_refs, gpio_chips, regs>>

LocatorNext == locator_call

SpecLocator == LocatorInit /\ [][LocatorNext]_vars

(* ---------------------------------------------------------------------- *)
(* GPIO enable fixup on its own: n5550_ich_gpio_setup is applied up to     *)
(* MaxFixupCalls times in a row to every pair of ownership register values *)
(* over FixupBits                                                          *)
(* ---------------------------------------------------------------------- *)
\* bits inside and outside the two masks, among them bit 31
FixupBits == {0, 1, 2, 28, 31}
FixupRegVals == SUBSET FixupBits

FixupInit ==
    /\ pc = "fixup_call"
    /\ ret = Unset
    /\ init_ret = Unset
    /\ pca_rv = Unset
    /\ gpio_rv = Unset
    /\ led_rv = Unset
    /\ base = Unset
    /\ gpio_io_base = {}
    /\ n5550_pca9532_0_client = NULL
    /\ n5550_pca9532_1_client = NULL
    /\ leds_gpio = [i \in 1..NUM_LEDS |-> 0]
    /\ i2c_devs = {}
    /\ pdev_registered = FALSE
    /\ owner_refs = 0
    /\ pci_refs = 0
    /\ gpio_chips = <<>>
    /\ pci_gpio_base \in GpioBaseVals
    /\ pci_gpio_ctrl \in GpioCtrlVals
    /\ \E v0 \in FixupRegVals, v1 \in FixupRegVals :
          io = [p \in Ports |->
                   IF p = U32Value(FirmwareIoBase) + N5550_ICH_GPIO_USE_SEL_0 THEN v0
                   ELSE IF p = U32Value(FirmwareIoBase) + N5550_ICH_GPIO_USE_SEL_1
                        THEN v1
                   ELSE {}]
    /\ boot = [ctrl |-> pci_gpio_ctrl, io |-> io]
    /\ log = <<>>

\* the caller: n5550_ich_gpio_setup() is entered, again once it has returned
fixup_call ==
    /\ pc \in {"fixup_call", "init_after_gpio"}
    /\ Cardinality({i \in DOMAIN log : log[i].call = "pci_get_device"}) < MaxFixupCalls
    /\ pc' = "gpio_get_device"
    /\ UNCHANGED <<locals, init_ret, rvs, clients, leds_gpio, pdev_registered,
                   owner_refs, pci_refs, gpio_chips, regs, log>>

FixupNext ==
    \/ fixup_call
    \/ ich_gpio_setup_get_device
    \/ ich_gpio_setup_config
    \/ ich_gpio_setup_use_sel_0
    \/ ich_gpio_setup_use_sel_1

SpecFixup == FixupInit /\ [][FixupNext]_vars

(* ---------------------------------------------------------------------- *)
(* Vocabulary of the properties                                            *)
(* ---------------------------------------------------------------------- *)
Calls(name, arg) == {i \in DOMAIN log : log[i].call = name /\ log[i].arg = arg}
CallsWith(name, arg, res) == {i \in Calls(name, arg) : log[i].res = res}
NumCalls(name, arg) == Cardinality(Calls(name, arg))

\* every call of the first kind is logged before every call of the second kind
AllBefore(first, second) == \A i \in first : \A j \in second : i < j

InsidePca9532Setup ==
    pc \in {"pca_get_device", "pca_get_drvdata", "pca_module_get",
            "pca_new_client_0", "pca_new_client_1", "pca_release"}

NoDeviceRegistered == i2c_devs = {} /\ ~pdev_registered

\* the controllers of the list that carry the expected label
IchChips(chips) == {i \in DOMAIN chips : chips[i].label = "gpio_ich"}
FirstIchChip(chips) ==
    CHOOSE i \in IchChips(chips) : \A j \in IchChips(chips) : i <= j

fixed_offset == <<0, 2, 3, 4, 5>>

(* ---------------------------------------------------------------------- *)
(* C1: when n5550_board_init fails after n5550_pca9532_setup succeeded,    *)
(* n5550_pca9532_cleanup has run before the error is returned: just before *)
(* the return and once the error is returned, no satellite device and no   *)
(* LED platform device is registered, and each satellite was unregistered. *)
(* ---------------------------------------------------------------------- *)
C1_RollbackBeforeError ==
    (pc \in {"init_error_return", "failed"} /\ pca_rv = 0) =>
        /\ NoDeviceRegistered
        /\ NumCalls("i2c_unregister_device", PCA9532_0_ADDR) = 1
        /\ NumCalls("i2c_unregister_device", PCA9532_1_ADDR) = 1

\* scenario A: no controller is labelled "gpio_ich", the LED step fails
C1_Witness ==
    /\ pc = "failed"
    /\ pca_rv = 0
    /\ gpio_rv = 0
    /\ IchChips(gpio_chips) = {}
    /\ init_ret = -ENODEV

(* ---------------------------------------------------------------------- *)
(* C2: when the registration of the chip at 0x62 fails after the chip at   *)
(* 0x64 was registered, n5550_pca9532_setup unregisters the 0x64 client    *)
(* exactly once and releases the adapter driver exactly once, both after   *)
(* the failed registration and before it returns the error.                *)
(* ---------------------------------------------------------------------- *)
SecondRegistrationFailed ==
    /\ CallsWith("i2c_new_client_device", PCA9532_0_ADDR, PCA9532_0_ADDR) # {}
    /\ CallsWith("i2c_new_client_device", PCA9532_1_ADDR, NULL) # {}

C2_SecondFailureRollsBackFirst ==
    SecondRegistrationFailed =>
        /\ pca_rv = -ENODEV
        /\ NumCalls("i2c_unregister_device", PCA9532_0_ADDR) = 1
        /\ NumCalls("i2c_unregister_device", PCA9532_1_ADDR) = 0
        /\ NumCalls("module_put", 0) = 1
        /\ AllBefore(Calls("i2c_new_client_device", PCA9532_1_ADDR),
                     Calls("i2c_unregister_device", PCA9532_0_ADDR))
        /\ AllBefore(Calls("i2c_unregister_device", PCA9532_0_ADDR),
                     Calls("module_put", 0))
        /\ i2c_devs = {}
        /\ owner_refs = 0

C2_Witness ==
    /\ SecondRegistrationFailed
    /\ pc = "init_after_pca"
    /\ n5550_pca9532_0_client = PCA9532_0_ADDR
    /\ n5550_pca9532_1_client = NULL

(* ---------------------------------------------------------------------- *)
(* C3: the adapter driver reference is released exactly once on each exit  *)
(* path of n5550_pca9532_setup that acquired it and never on a path that   *)
(* did not; outside n5550_pca9532_setup the module holds no such reference. *)
(* ---------------------------------------------------------------------- *)
C3_DriverReferenceBalanced ==
    /\ owner_refs \in 0..1
    /\ ~InsidePca9532Setup =>
          /\ owner_refs = 0
          /\ NumCalls("module_put", 0)
                = Cardinality(CallsWith("try_module_get", 0, 1))
    /\ AllBefore(CallsWith("try_module_get", 0, 1), Calls("module_put", 0))
    /\ CallsWith("try_module_get", 0, 1) = {} => Calls("module_put", 0) = {}

\* setup returned through the first-registration failure path
C3_Witness ==
    /\ pc = "init_after_pca"
    /\ CallsWith("i2c_new_client_device", PCA9532_0_ADDR, NULL) # {}
    /\ NumCalls("module_put", 0) = 1

C5_ExitUnregistersEachOnce ==
    (pc = "removed") =>
        /\ NumCalls("platform_device_unregister", 0) = 1
        /\ NumCalls("i2c_unregister_device", PCA9532_0_ADDR) = 1
        /\ NumCalls("i2c_unregister_device", PCA9532_1_ADDR) = 1
        /\ Cardinality({i \in DOMAIN log : log[i].call = "i2c_unregister_device"}) = 2
        /\ NoDeviceRegistered

C5_Witness ==
    /\ pc = "removed"
    /\ init_ret = 0
    /\ Len(log) > 0
    /\ log[Len(log)].call = "platform_device_unregister"

(* ---------------------------------------------------------------------- *)
(* C6 as stated: whenever n5550_board_init returns an error, the enable    *)
(* register and both pin-ownership registers hold the values they held     *)
(* before init was called, and no device is registered.                    *)
(* ---------------------------------------------------------------------- *)
C6_FirmwareDefaultOnAnyFailure ==
    (pc = "failed") =>
        /\ pci_gpio_ctrl = boot.ctrl
        /\ io = boot.io
        /\ NoDeviceRegistered

(* ---------------------------------------------------------------------- *)
(* C6 as amended: whenever n5550_board_init returns an error no device is  *)
(* registered; the enable register and both pin-ownership registers hold   *)
(* their values from before init when the failing step is the satellite    *)
(* setup or the GPIO fixup, and when the failing step is the LED setup the *)
(* fixup's writes stay: enable register 0x10, first ownership register     *)
(* ORed with bits 0,2,3,4,5,9,28, second ORed with bit 2.                  *)
(* ---------------------------------------------------------------------- *)
FixupApplied(before) ==
    [p \in Ports |->
        IF p = U32Value(FirmwareIoBase) THEN before[p] \cup {0, 2, 3, 4, 5, 9, 28}
        ELSE IF p = U32Value(FirmwareIoBase) + 48 THEN before[p] \cup {2}
        ELSE before[p]]

C6_FailedInitState ==
    (pc = "failed") =>
        /\ NoDeviceRegistered
        /\ (gpio_rv # 0) => (pci_gpio_ctrl = boot.ctrl /\ io = boot.io)
        /\ (gpio_rv = 0) => (pci_gpio_ctrl = 16 /\ io = FixupApplied(boot.io))

\* the LED step failed after the fixup changed the registers
C6_Witness ==
    /\ pc = "failed"
    /\ gpio_rv = 0
    /\ led_rv # 0
    /\ io # boot.io
    /\ pci_gpio_ctrl # boot.ctrl

(* ---------------------------------------------------------------------- *)
(* C7: the error n5550_board_init returns is the value returned by the     *)
(* first failing step, unchanged by the rollback: -EBUSY when the driver   *)
(* reference was refused, -EINVAL when the matched controller has a        *)
(* negative base, -ENODEV when a bus function or the controller is absent. *)
(* ---------------------------------------------------------------------- *)
FirstFailure ==
    IF pca_rv # 0 THEN pca_rv ELSE IF gpio_rv # 0 THEN gpio_rv ELSE led_rv

C7_ErrorReturnedUnchanged ==
    (pc = "failed") =>
        /\ init_ret # 0
        /\ init_ret = FirstFailure
        /\ CallsWith("try_module_get", 0, 0) # {} => init_ret = -EBUSY
        /\ CallsWith("pci_get_device", N5550_ICH_I2C_PCI_DEV, 0) # {}
              => init_ret = -ENODEV
        /\ CallsWith("pci_get_device", N5550_ICH_LPC_PCI_DEV, 0) # {}
              => init_ret = -ENODEV
        /\ (gpio_rv = 0 /\ IchChips(gpio_chips) = {}) => init_ret = -ENODEV
        /\ (gpio_rv = 0 /\ IchChips(gpio_chips) # {}
                /\ gpio_chips[FirstIchChip(gpio_chips)].base < 0)
              => init_ret = -EINVAL
        /\ CallsWith("platform_device_register", 0, -ENOMEM) # {}
              => init_ret = -ENOMEM

\* an error of the LED step travelled through the rollback
C7_Witness ==
    /\ pc = "failed"
    /\ init_ret = -EINVAL
    /\ Calls("i2c_unregister_device", PCA9532_1_ADDR) # {}

(* ---------------------------------------------------------------------- *)
(* C8: while the LED platform device is registered, every activity LED i   *)
(* has its pin equal to base + fixed_offset[i], base being the             *)
(* non-negative base of the located controller; the pins are written only  *)
(* after a successful lookup, and when the lookup fails no pin is written  *)
(* and no registration of the LED device is attempted.                     *)
(* ---------------------------------------------------------------------- *)
Unresolved == [i \in 1..NUM_LEDS |-> 0]

LookupFails(chips) ==
    \/ IchChips(chips) = {}
    \/ chips[FirstIchChip(chips)].base < 0

C8_ResolvedPins ==
    /\ pdev_registered =>
          /\ ~LookupFails(gpio_chips)
          /\ \A i \in 1..5 :
                leds_gpio[i]
                    = gpio_chips[FirstIchChip(gpio_chips)].base + fixed_offset[i]
    /\ (leds_gpio # Unresolved) =>
          /\ ~LookupFails(gpio_chips)
          /\ base = gpio_chips[FirstIchChip(gpio_chips)].base
          /\ Calls("gpiochip_find", 0) # {}
    /\ (pc \in {"led_register", "loaded"}) => leds_gpio # Unresolved
    /\ LookupFails(gpio_chips) =>
          /\ leds_gpio = Unresolved
          /\ Calls("platform_device_register", 0) = {}
          /\ ~pdev_registered

\* scenario B: base 100
C8_Witness ==
    /\ pdev_registered
    /\ leds_gpio = <<100, 102, 103, 104, 105>>

(* ---------------------------------------------------------------------- *)
(* C9: for every list of controllers the locator selects the first one     *)
(* labelled "gpio_ich", wherever it stands in the list; a controller with  *)
(* a NULL label is never selected and causes no error; with no controller  *)
(* so labelled the result is -ENODEV.                                      *)
(* ---------------------------------------------------------------------- *)
C9_LocatorSelectsFirstMatch ==
    (base # Unset) =>
        /\ NumCalls("gpiochip_find", 0) = 1
        /\ LET found == log[CHOOSE i \in Calls("gpiochip_find", 0) : TRUE].res
           IN  IF IchChips(gpio_chips) = {}
               THEN found = NULL /\ base = -ENODEV
               ELSE /\ found = FirstIchChip(gpio_chips)
                    /\ gpio_chips[found].label # NullLabel
                    /\ base # -ENODEV
                    /\ (gpio_chips[found].base >= 0)
                          => base = gpio_chips[found].base

\* labels "other", NULL, "gpio_ich" in that order
C9_Witness ==
    /\ pc = "locator_done"
    /\ Len(gpio_chips) = 3
    /\ gpio_chips[1].label = "other"
    /\ gpio_chips[2].label = NullLabel
    /\ gpio_chips[3] = [label |-> "gpio_ich", base |-> 100]
    /\ base = 100

(* ---------------------------------------------------------------------- *)
(* C10: when the matched controller's base is negative the locator returns *)
(* -EINVAL, the LED bring-up computes no pin and registers no LED device;  *)
(* a value the locator returns as a base is never negative.                *)
(* ---------------------------------------------------------------------- *)
C10_NegativeBaseIsInvalid ==
    /\ (base # Unset) => (base >= 0 \/ base \in {-ENODEV, -EINVAL})
    /\ (pc \in {"led_resolve", "led_register"}) => base >= 0
    /\ (base # Unset /\ IchChips(gpio_chips) # {}
            /\ gpio_chips[FirstIchChip(gpio_chips)].base < 0) =>
          /\ base = -EINVAL
          /\ led_rv = -EINVAL
          /\ leds_gpio = Unresolved
          /\ Calls("platform_device_register", 0) = {}
          /\ ~pdev_registered

C10_Witness ==
    /\ pc = "init_after_led"
    /\ base = -EINVAL
    /\ gpio_chips[FirstIchChip(gpio_chips)].base = -1
    /\ leds_gpio = Unresolved

(* ---------------------------------------------------------------------- *)
(* C11: for all initial values v0, v1 of the two pin-ownership registers a *)
(* successful fixup leaves them at v0 OR {bits 0,2,3,4,5,9,28} and         *)
(* v1 OR {bit 2}: every bit set before is set after, and from 0x00000000   *)
(* the results are exactly 0x1000023D and 0x00000004.                      *)
(* ---------------------------------------------------------------------- *)
UseSel0 == U32Value(FirmwareIoBase)
UseSel1 == U32Value(FirmwareIoBase) + 48

C11_FixupOnlySetsBits ==
    (pc = "init_after_gpio" /\ gpio_rv = 0) =>
        /\ io[UseSel0] = boot.io[UseSel0] \cup {0, 2, 3, 4, 5, 9, 28}
        /\ io[UseSel1] = boot.io[UseSel1] \cup {2}
        /\ boot.io[UseSel0] \subseteq io[UseSel0]
        /\ boot.io[UseSel1] \subseteq io[UseSel1]
        /\ (boot.io[UseSel0] = {}) => U32Value(io[UseSel0]) = 268436029
        /\ (boot.io[UseSel1] = {}) => U32Value(io[UseSel1]) = 4

\* firmware bits outside the masks survive next to the bits the fixup set
C11_Witness ==
    /\ pc = "init_after_gpio"
    /\ gpio_rv = 0
    /\ boot.io[UseSel0] = {1, 31}
    /\ io[UseSel0] = {0, 1, 2, 3, 4, 5, 9, 28, 31}
    /\ boot.io[UseSel1] = {}
    /\ U32Value(io[UseSel1]) = 4

(* ---------------------------------------------------------------------- *)
(* C12: the fixup is idempotent: once n5550_ich_gpio_setup has been        *)
(* applied, applying it again changes neither ownership register nor the   *)
(* enable register, whatever values the registers started from.            *)
(* ---------------------------------------------------------------------- *)
FixupCompleted == Calls("pci_dev_put", N5550_ICH_LPC_PCI_DEV) # {}

C12_FixupIdempotent ==
    [][FixupCompleted => (io' = io /\ pci_gpio_ctrl' = pci_gpio_ctrl)]_vars

\* the fixup has run to its end twice on registers it had to change
C12_Witness ==
    /\ pc = "init_after_gpio"
    /\ NumCalls("pci_dev_put", N5550_ICH_LPC_PCI_DEV) >= 2
    /\ NumCalls("outl", UseSel0) >= 2
    /\ io # boot.io
    /\ pci_gpio_ctrl # boot.ctrl

(* ---------------------------------------------------------------------- *)
(* C13: when the fixup fails because the pin-configuration bus function is *)
(* not found it returns -ENODEV having made no configuration-space write   *)
(* and no port write: the enable register and both ownership registers    *)
(* are unchanged.                                                          *)
(* ---------------------------------------------------------------------- *)
CallsNamed(name) == {i \in DOMAIN log : log[i].call = name}

C13_FailedFixupTouchesNothing ==
    /\ (gpio_rv \notin {Unset, 0}) =>
          /\ gpio_rv = -ENODEV
          /\ CallsWith("pci_get_device", N5550_ICH_LPC_PCI_DEV, 0) # {}
          /\ CallsNamed("pci_write_config_byte") = {}
          /\ CallsNamed("outl") = {}
          /\ pci_gpio_ctrl = boot.ctrl
          /\ io = boot.io
    /\ CallsWith("pci_get_device", N5550_ICH_LPC_PCI_DEV, 0) # {} =>
          gpio_rv = -ENODEV

\* the firmware had left the GPIO function off, and it still is
C13_Witness ==
    /\ pc = "init_after_gpio"
    /\ gpio_rv = -ENODEV
    /\ pci_gpio_ctrl = 0
    /\ io[UseSel0] = {}

(* ---------------------------------------------------------------------- *)
(* C14: bring-up runs satellite setup, then the GPIO fixup, then the LED   *)
(* device setup, each step only when every earlier one succeeded: after a  *)
(* failed satellite setup no register is written and no LED registration   *)
(* is attempted, and after a failed fixup no controller lookup and no LED  *)
(* registration is attempted.                                              *)
(* ---------------------------------------------------------------------- *)
SatelliteCalls ==
    Calls("pci_get_device", N5550_ICH_I2C_PCI_DEV)
        \cup CallsNamed("try_module_get") \cup CallsNamed("i2c_new_client_device")
        \cup CallsNamed("module_put") \cup Calls("pci_dev_put", N5550_ICH_I2C_PCI_DEV)
FixupCalls ==
    Calls("pci_get_device", N5550_ICH_LPC_PCI_DEV)
        \cup CallsNamed("pci_read_config_dword")
        \cup CallsNamed("pci_write_config_byte")
        \cup CallsNamed("inl") \cup CallsNamed("outl")
        \cup Calls("pci_dev_put", N5550_ICH_LPC_PCI_DEV)
LedCalls == CallsNamed("gpiochip_find") \cup CallsNamed("platform_device_register")

C14_StepsInOrder ==
    /\ AllBefore(SatelliteCalls, FixupCalls)
    /\ AllBefore(FixupCalls, LedCalls)
    /\ FixupCalls # {} => pca_rv = 0
    /\ LedCalls # {} => (pca_rv = 0 /\ gpio_rv = 0)
    /\ (pca_rv \notin {Unset, 0}) =>
          /\ FixupCalls = {} /\ LedCalls = {}
          /\ pci_gpio_ctrl = boot.ctrl /\ io = boot.io
          /\ gpio_rv = Unset /\ led_rv = Unset
    /\ (gpio_rv \notin {Unset, 0}) => (LedCalls = {} /\ led_rv = Unset /\ base = Unset)
    /\ (pc = "loaded") =>
          (SatelliteCalls # {} /\ FixupCalls # {} /\ LedCalls # {})

\* all three steps ran, in order, and the last one failed
C14_Witness ==
    /\ pc = "init_after_led"
    /\ led_rv = -ENOMEM
    /\ SatelliteCalls # {}
    /\ FixupCalls # {}
    /\ CallsNamed("platform_device_register") # {}

(* ---------------------------------------------------------------------- *)
(* C15: whenever n5550_pca9532_setup returns an error, whichever of its    *)
(* five failures caused it, no satellite device is registered at the       *)
(* return, and n5550_board_init returns that error without calling the     *)
(* satellite cleanup.                                                      *)
(* ---------------------------------------------------------------------- *)
C15_FailedSetupLeavesNothing ==
    (pca_rv \notin {Unset, 0}) =>
        /\ pc \in {"init_after_pca", "failed"}
        /\ i2c_devs = {}
        /\ pca_rv \in {-ENODEV, -EBUSY}
        /\ Calls("i2c_unregister_device", PCA9532_1_ADDR) = {}
        /\ Calls("i2c_unregister_device", NULL) = {}
        /\ Cardinality(CallsNamed("i2c_unregister_device"))
              = (IF SecondRegistrationFailed THEN 1 ELSE 0)
        /\ (pc = "failed") => init_ret = pca_rv

\* init has returned the error of a setup whose first registration failed
C15_Witness ==
    /\ pc = "failed"
    /\ CallsWith("i2c_new_client_device", PCA9532_0_ADDR, NULL) # {}
    /\ init_ret = -ENODEV
    /\ CallsNamed("i2c_unregister_device") = {}

(* ---------------------------------------------------------------------- *)
(* C16: inside n5550_pca9532_setup every registration of a satellite       *)
(* device and the rollback unregistration happen while the adapter driver  *)
(* reference is held: after try_module_get succeeded and before            *)
(* module_put, and never when try_module_get was refused.                  *)
(* ---------------------------------------------------------------------- *)
WhileReferenceHeld(calls) ==
    \A i \in calls :
        /\ \E j \in CallsWith("try_module_get", 0, 1) : j < i
        /\ \A k \in Calls("module_put", 0) : i < k

C16_RegistrationUnderReference ==
    /\ WhileReferenceHeld(CallsNamed("i2c_new_client_device"))
    /\ (InsidePca9532Setup \/ pc = "init_after_pca") =>
          WhileReferenceHeld(CallsNamed("i2c_unregister_device"))
    /\ (pc \in {"pca_new_client_0", "pca_new_client_1"}) => owner_refs = 1
    /\ CallsWith("try_module_get", 0, 0) # {} =>
          /\ CallsNamed("i2c_new_client_device") = {}
          /\ CallsNamed("i2c_unregister_device") = {}
          /\ pca_rv = -EBUSY

\* both registrations and the rollback were made, then the reference released
C16_Witness ==
    /\ pc = "init_after_pca"
    /\ NumCalls("i2c_new_client_device", PCA9532_0_ADDR) = 1
    /\ NumCalls("i2c_new_client_device", PCA9532_1_ADDR) = 1
    /\ NumCalls("i2c_unregister_device", PCA9532_0_ADDR) = 1
    /\ log[Len(log) - 1].call = "module_put"

(* ---------------------------------------------------------------------- *)
(* C17: over a whole lifecycle every unregistration is of a device that is *)
(* registered at that moment: the LED platform device is unregistered only *)
(* after its registration succeeded, and a satellite client is             *)
(* unregistered at most once, never when unset and never after a rollback  *)
(* already unregistered it; exit runs only after a successful init.        *)
(* ---------------------------------------------------------------------- *)
C17_UnregisterOnlyRegistered ==
    /\ \A i \in CallsNamed("i2c_unregister_device") :
          /\ log[i].arg # NULL
          /\ \E j \in CallsWith("i2c_new_client_device", log[i].arg, log[i].arg) :
                j < i
          /\ \A k \in Calls("i2c_unregister_device", log[i].arg) : k = i
    /\ \A i \in CallsNamed("platform_device_unregister") :
          /\ \E j \in CallsWith("platform_device_register", 0, 0) : j < i
          /\ \A k \in CallsNamed("platform_device_unregister") : k = i
    /\ (pc \in {"exit_led_cleanup", "removed"}) => init_ret = 0

\* the LED registration failed: both satellites rolled back, the LED device
\* left alone
C17_Witness ==
    /\ pc = "failed"
    /\ led_rv = -ENOMEM
    /\ Cardinality(CallsNamed("i2c_unregister_device")) = 2
    /\ CallsNamed("platform_device_unregister") = {}

(* ---------------------------------------------------------------------- *)
(* C18: in n5550_ich_gpio_setup and in n5550_pca9532_setup every           *)
(* successful pci_get_device is followed by exactly one pci_dev_put before *)
(* the function returns, on every path; no pci_dev_put is made when the    *)
(* lookup found nothing; once init has returned the module holds no        *)
(* reference on a bus function.                                            *)
(* ---------------------------------------------------------------------- *)
InsideIchGpioSetup == pc \in {"gpio_get_device", "gpio_config", "gpio_use_sel_0",
                              "gpio_use_sel_1"}

PciBalanced(dev) ==
    /\ NumCalls("pci_dev_put", dev) = Cardinality(CallsWith("pci_get_device", dev, 1))
    /\ AllBefore(CallsWith("pci_get_device", dev, 1), Calls("pci_dev_put", dev))

C18_PciReferencesBalanced ==
    /\ pci_refs \in 0..1
    /\ ~InsidePca9532Setup => PciBalanced(N5550_ICH_I2C_PCI_DEV)
    /\ ~InsideIchGpioSetup => PciBalanced(N5550_ICH_LPC_PCI_DEV)
    /\ \A dev \in {N5550_ICH_I2C_PCI_DEV, N5550_ICH_LPC_PCI_DEV} :
          /\ NumCalls("pci_dev_put", dev) <= 1
          /\ CallsWith("pci_get_device", dev, 1) = {} => Calls("pci_dev_put", dev) = {}
    /\ (~InsidePca9532Setup /\ ~InsideIchGpioSetup) => pci_refs = 0

\* init has returned after taking and dropping both bus functions
C18_Witness ==
    /\ pc \in {"loaded", "failed"}
    /\ NumCalls("pci_dev_put", N5550_ICH_I2C_PCI_DEV) = 1
    /\ NumCalls("pci_dev_put", N5550_ICH_LPC_PCI_DEV) = 1
    /\ pci_refs = 0
====
